---------------------------- MODULE Spec2Model ----------------------------
(***************************************************************************)
(* Logistic-growth integrators (Euler, Heun, RK4), the analytic solution   *)
(* and the trajectory comparator of ModeloLogisticoCorrigido.              *)
(*                                                                         *)
(* JavaScript numbers are binary floating point: every arithmetic          *)
(* operation returns the representable number nearest to the exact result  *)
(* (ties to even).  The model keeps that structure with a significand of   *)
(* MantBits bits instead of 53: a number is <<m, e>>, value m * 2^e, with  *)
(* m = 0 (then e = 0) or 2^(MantBits-1) <= |m| < 2^MantBits.  The exponent *)
(* is unbounded: overflow to Infinity and NaN are outside the model.       *)
(***************************************************************************)
EXTENDS Integers, Sequences, FiniteSets, TLC

\* Width of the significand of a number of the model.
MantBits == 13

------------------------------------------------------------------------------
(* Binary floating point *)

Pow2(k) == 2 ^ k

Abs(n) == IF n < 0 THEN -n ELSE n

\* Number of bits of a natural number below 2^31 (0 for 0).
BitsFrom(a, lo, hi) == CHOOSE k \in lo..hi : Pow2(k - 1) <= a /\ (k = 31 \/ a < Pow2(k))
Bits(a) ==
  IF a = 0 THEN 0
  ELSE IF a < Pow2(8) THEN BitsFrom(a, 1, 8)
  ELSE IF a < Pow2(16) THEN BitsFrom(a, 9, 16)
  ELSE IF a < Pow2(24) THEN BitsFrom(a, 17, 24)
  ELSE BitsFrom(a, 25, 31)

Sgn(n) == IF n < 0 THEN -1 ELSE 1

\* The float nearest to the integer-scaled value n * 2^e, ties to even: k low
\* bits are dropped, q is what stays, rem what is dropped, half = 2^(k-1).
NormFim(n, e1, q1) ==
  IF q1 = Pow2(MantBits) THEN <<Sgn(n) * Pow2(MantBits - 1), e1 + 1>>
  ELSE <<Sgn(n) * q1, e1>>
NormArred(n, e1, q, rem, half) ==
  NormFim(n, e1, IF rem > half \/ (rem = half /\ q % 2 = 1) THEN q + 1 ELSE q)
NormBits(n, e, k) ==
  IF k <= 0 THEN <<n * Pow2(-k), e + k>>
  ELSE NormArred(n, e + k, Abs(n) \div Pow2(k), Abs(n) % Pow2(k), Pow2(k - 1))
Norm(n, e) == IF n = 0 THEN <<0, 0>> ELSE NormBits(n, e, Bits(Abs(n)) - MantBits)

Zero == <<0, 0>>
FromInt(n) == Norm(n, 0)
Neg(x) == <<-x[1], x[2]>>
FAbs(x) == <<Abs(x[1]), x[2]>>

\* x + y, correctly rounded.
AddAlinhado(hi, lo) ==
  IF hi[2] - lo[2] > MantBits + 1 THEN hi
  ELSE Norm(hi[1] * Pow2(hi[2] - lo[2]) + lo[1], lo[2])
Add(x, y) ==
  IF x[1] = 0 THEN y
  ELSE IF y[1] = 0 THEN x
  ELSE IF x[2] >= y[2] THEN AddAlinhado(x, y) ELSE AddAlinhado(y, x)

Sub(x, y) == Add(x, Neg(y))

\* x * y, correctly rounded.
Mul(x, y) == Norm(x[1] * y[1], x[2] + y[2])

\* floor(n * 2^k / d) and whether the division left a remainder, by long
\* division: <<quotient, remainder # 0>>.
RECURSIVE LongDiv(_, _, _, _)
LongDiv(q, rr, d, k) ==
  IF k = 0 THEN <<q, rr # 0>>
  ELSE IF 2 * rr >= d THEN LongDiv(2 * q + 1, 2 * rr - d, d, k - 1)
  ELSE LongDiv(2 * q, 2 * rr, d, k - 1)

\* The float nearest to the rational n / d (n, d integers, d > 0): what
\* parseFloat returns for a decimal literal.
FromQuociente(n, qr, k) == Norm(Sgn(n) * (2 * qr[1] + (IF qr[2] THEN 1 ELSE 0)), -k - 1)
FromRatBits(n, d, k) == FromQuociente(n, LongDiv(Abs(n) \div d, Abs(n) % d, d, k), k)
FromRatDe(n, d, k0) == FromRatBits(n, d, IF k0 < 0 THEN 0 ELSE k0)
FromRat(n, d) ==
  IF n = 0 THEN Zero ELSE FromRatDe(n, d, MantBits + 2 + Bits(d) - Bits(Abs(n)))

\* x / y (y # 0), correctly rounded: MantBits + 2 quotient bits and a sticky
\* bit for the remainder.
DivInteiros(s, a, b, e) == Norm(s * (2 * (a \div b) + (IF a % b = 0 THEN 0 ELSE 1)), e)
Div(x, y) ==
  IF x[1] = 0 THEN Zero
  ELSE DivInteiros(IF (x[1] < 0) = (y[1] < 0) THEN 1 ELSE -1,
                   Abs(x[1]) * Pow2(MantBits + 2), Abs(y[1]),
                   x[2] - y[2] - MantBits - 3)

\* x < y on floats: by sign, then exponent, then significand.
Lt(x, y) ==
  IF x[1] <= 0 /\ y[1] > 0 THEN x # y
  ELSE IF x[1] < 0 /\ y[1] = 0 THEN TRUE
  ELSE IF x[1] >= 0 /\ y[1] <= 0 THEN FALSE
  ELSE IF x[1] > 0 THEN x[2] < y[2] \/ (x[2] = y[2] /\ x[1] < y[1])
  ELSE x[2] > y[2] \/ (x[2] = y[2] /\ x[1] < y[1])
Max(x, y) == IF Lt(x, y) THEN y ELSE x

\* Math.floor(x) as an integer.
Floor(x) ==
  IF x[2] >= 0 THEN x[1] * Pow2(x[2])
  ELSE IF -x[2] > 30 THEN (IF x[1] < 0 THEN -1 ELSE 0)
  ELSE x[1] \div Pow2(-x[2])

\* Digits kept by toFixed.
FixDigits == 6

\* parseFloat(x.toFixed(FixDigits)): x rounded to FixDigits decimals (half away
\* from zero, on the exact value of x), then to the nearest float.
ToFixedDe(x, k) ==
  FromRat(Sgn(x[1]) * (IF k > 30 THEN 0
                       ELSE (Abs(x[1]) * 5 ^ FixDigits + Pow2(k - 1)) \div Pow2(k)),
          10 ^ FixDigits)
ToFixed(x) ==
  IF x[1] = 0 \/ x[2] >= -FixDigits THEN x ELSE ToFixedDe(x, -x[2] - FixDigits)

One == FromInt(1)
ExpGrau == 5
Two == FromInt(2)
Ln2 == FromRat(693147, 1000000)

\* Math.exp(x): argument reduction x = k*ln2 + rr, then the Taylor polynomial
\* of degree 5 in rr, evaluated in floating point; exp(0) = 1 exactly.
RECURSIVE Horner(_, _, _)
Horner(rr, j, p) ==
  IF j = 0 THEN p
  ELSE Horner(rr, j - 1, Add(One, Mul(Div(rr, FromInt(j)), p)))

ExpEscala(p, k) == <<p[1], p[2] + k>>
ExpReduzido(x, k) == ExpEscala(Horner(Sub(x, Mul(FromInt(k), Ln2)), ExpGrau, One), k)
Exp(x) == ExpReduzido(x, Floor(Add(Div(x, Ln2), FromRat(1, 2))))

------------------------------------------------------------------------------
(* The numerical methods *)

\* A right-hand side without the saturation factor: r * y.
modeloExponencial(t, y, rr, KK) == Mul(rr, y)

\* dy/dt = r * y * (1 - y/K); t is not used.
modeloLogistico(t, y, rr, KK) == Mul(Mul(rr, y), Sub(One, Div(y, KK)))

\* An analytic solution whose numerator lacks K.
solucaoExataSemK(t, rr, KK, y0) ==
  Div(y0, Add(y0, Mul(Sub(KK, y0), Exp(Mul(Neg(rr), t)))))

\* (K * y0) / (y0 + (K - y0) * Math.exp(-r * t))
solucaoExata(t, rr, KK, y0) ==
  Div(Mul(KK, y0), Add(y0, Mul(Sub(KK, y0), Exp(Mul(Neg(rr), t)))))

\* Number of steps: Math.floor(tf / h).
Passos(tff, hh) == Floor(Div(tff, hh))

Ponto(t, y) == [t |-> t, y |-> y]

\* The variables of an integrator's loop: let i, let t, let y, resultado.
InicioSemPonto(y0) == [i |-> 0, t |-> Zero, y |-> y0, resultado |-> <<>>]
Inicio(y0) == [i |-> 0, t |-> Zero, y |-> y0, resultado |-> <<Ponto(Zero, y0)>>]

\* t = t + h; resultado.push({t: parseFloat(t.toFixed(6)), y}); i++
Push(st, t1, y1) ==
  [i |-> st.i + 1, t |-> t1, y |-> y1,
   resultado |-> Append(st.resultado, Ponto(ToFixed(t1), y1))]
Avanca(st, y1, hh) == Push(st, Add(st.t, hh), y1)

\* An Euler step that advances y by half the slope.
eulerPassoMeio(st, rr, KK, hh) ==
  Avanca(st, Add(st.y, Mul(Div(hh, Two), modeloLogistico(st.t, st.y, rr, KK))), hh)

\* const dydt = f(t, y); y = y + h * dydt
eulerPasso(st, rr, KK, hh) ==
  Avanca(st, Add(st.y, Mul(hh, modeloLogistico(st.t, st.y, rr, KK))), hh)

RECURSIVE eulerLoop(_, _, _, _, _)
eulerLoop(st, n, rr, KK, hh) ==
  IF ~(st.i < n) THEN st.resultado
  ELSE eulerLoop(eulerPasso(st, rr, KK, hh), n, rr, KK, hh)

euler(rr, KK, y0, tff, hh) == eulerLoop(Inicio(y0), Passos(tff, hh), rr, KK, hh)

\* const k1 = f(t, y); const k2 = f(t + h, y + h * k1);
\* y = y + (h / 2) * (k1 + k2)
eulerAprimoradoSoma(st, hh, k1, k2) ==
  Avanca(st, Add(st.y, Mul(Div(hh, Two), Add(k1, k2))), hh)

\* A Heun step whose k2 is evaluated from the already updated y.
eulerAprimoradoK2Atualizado(st, rr, KK, hh, k1) ==
  eulerAprimoradoSoma(st, hh, k1,
    modeloLogistico(Add(st.t, hh),
                    Add(Add(st.y, Mul(hh, k1)), Mul(hh, k1)), rr, KK))

eulerAprimoradoK2(st, rr, KK, hh, k1) ==
  eulerAprimoradoSoma(st, hh, k1,
    modeloLogistico(Add(st.t, hh), Add(st.y, Mul(hh, k1)), rr, KK))
eulerAprimoradoPasso(st, rr, KK, hh) ==
  eulerAprimoradoK2(st, rr, KK, hh, modeloLogistico(st.t, st.y, rr, KK))

RECURSIVE eulerAprimoradoLoop(_, _, _, _, _)
eulerAprimoradoLoop(st, n, rr, KK, hh) ==
  IF ~(st.i < n) THEN st.resultado
  ELSE eulerAprimoradoLoop(eulerAprimoradoPasso(st, rr, KK, hh), n, rr, KK, hh)

eulerAprimorado(rr, KK, y0, tff, hh) ==
  eulerAprimoradoLoop(Inicio(y0), Passos(tff, hh), rr, KK, hh)

\* An RK4 sum without the weights 2 of k2 and k3.
rungeKutta4SomaSemPesos(st, hh, k1, k2, k3, k4) ==
  Avanca(st, Add(st.y, Mul(Div(hh, FromInt(6)), Add(Add(Add(k1, k2), k3), k4))), hh)

\* const k1 = f(t, y); const k2 = f(t + h/2, y + (h/2) * k1);
\* const k3 = f(t + h/2, y + (h/2) * k2); const k4 = f(t + h, y + h * k3);
\* y = y + (h / 6) * (k1 + 2 * k2 + 2 * k3 + k4)
rungeKutta4Soma(st, hh, k1, k2, k3, k4) ==
  Avanca(st, Add(st.y, Mul(Div(hh, FromInt(6)),
                           Add(Add(Add(k1, Mul(Two, k2)), Mul(Two, k3)), k4))), hh)

\* An RK4 whose k4 is evaluated from k1 instead of k3.
rungeKutta4K4DeK1(st, rr, KK, hh, k1, k2, k3) ==
  rungeKutta4Soma(st, hh, k1, k2, k3,
    modeloLogistico(Add(st.t, hh), Add(st.y, Mul(hh, k1)), rr, KK))

rungeKutta4K4(st, rr, KK, hh, k1, k2, k3) ==
  rungeKutta4Soma(st, hh, k1, k2, k3,
    modeloLogistico(Add(st.t, hh), Add(st.y, Mul(hh, k3)), rr, KK))
rungeKutta4K3(st, rr, KK, hh, k1, k2) ==
  rungeKutta4K4(st, rr, KK, hh, k1, k2,
    modeloLogistico(Add(st.t, Div(hh, Two)), Add(st.y, Mul(Div(hh, Two), k2)), rr, KK))
rungeKutta4K2(st, rr, KK, hh, k1) ==
  rungeKutta4K3(st, rr, KK, hh, k1,
    modeloLogistico(Add(st.t, Div(hh, Two)), Add(st.y, Mul(Div(hh, Two), k1)), rr, KK))
rungeKutta4Passo(st, rr, KK, hh) ==
  rungeKutta4K2(st, rr, KK, hh, modeloLogistico(st.t, st.y, rr, KK))

RECURSIVE rungeKutta4Loop(_, _, _, _, _)
rungeKutta4Loop(st, n, rr, KK, hh) ==
  IF ~(st.i < n) THEN st.resultado
  ELSE rungeKutta4Loop(rungeKutta4Passo(st, rr, KK, hh), n, rr, KK, hh)

rungeKutta4(rr, KK, y0, tff, hh) ==
  rungeKutta4Loop(Inicio(y0), Passos(tff, hh), rr, KK, hh)

------------------------------------------------------------------------------
(* The integrators written in the file of ModeloLogisticoMultiplo: the same *)
(* loops, storing t as it is.                                               *)

\* t = t + h; resultado.push({ t, y })
PushLocal(st, t1, y1) ==
  [i |-> st.i + 1, t |-> t1, y |-> y1,
   resultado |-> Append(st.resultado, Ponto(t1, y1))]
AvancaLocal(st, y1, hh) == PushLocal(st, Add(st.t, hh), y1)

eulerLocalPasso(st, rr, KK, hh) ==
  AvancaLocal(st, Add(st.y, Mul(hh, modeloLogistico(st.t, st.y, rr, KK))), hh)

RECURSIVE eulerLocalLoop(_, _, _, _, _)
eulerLocalLoop(st, n, rr, KK, hh) ==
  IF ~(st.i < n) THEN st.resultado
  ELSE eulerLocalLoop(eulerLocalPasso(st, rr, KK, hh), n, rr, KK, hh)

eulerLocal(rr, KK, y0, tff, hh) ==
  eulerLocalLoop(Inicio(y0), Passos(tff, hh), rr, KK, hh)

\* An inline Heun sum that takes the whole step instead of half.
eulerAprimoradoLocalSomaInteira(st, hh, k1, k2) ==
  AvancaLocal(st, Add(st.y, Mul(hh, Add(k1, k2))), hh)

eulerAprimoradoLocalSoma(st, hh, k1, k2) ==
  AvancaLocal(st, Add(st.y, Mul(Div(hh, Two), Add(k1, k2))), hh)

eulerAprimoradoLocalK2(st, rr, KK, hh, k1) ==
  eulerAprimoradoLocalSoma(st, hh, k1,
    modeloLogistico(Add(st.t, hh), Add(st.y, Mul(hh, k1)), rr, KK))
eulerAprimoradoLocalPasso(st, rr, KK, hh) ==
  eulerAprimoradoLocalK2(st, rr, KK, hh, modeloLogistico(st.t, st.y, rr, KK))

RECURSIVE eulerAprimoradoLocalLoop(_, _, _, _, _)
eulerAprimoradoLocalLoop(st, n, rr, KK, hh) ==
  IF ~(st.i < n) THEN st.resultado
  ELSE eulerAprimoradoLocalLoop(eulerAprimoradoLocalPasso(st, rr, KK, hh),
                                n, rr, KK, hh)

eulerAprimoradoLocal(rr, KK, y0, tff, hh) ==
  eulerAprimoradoLocalLoop(Inicio(y0), Passos(tff, hh), rr, KK, hh)

rungeKutta4LocalSoma(st, hh, k1, k2, k3, k4) ==
  AvancaLocal(st, Add(st.y, Mul(Div(hh, FromInt(6)),
                    Add(Add(Add(k1, Mul(Two, k2)), Mul(Two, k3)), k4))), hh)
rungeKutta4LocalK4(st, rr, KK, hh, k1, k2, k3) ==
  rungeKutta4LocalSoma(st, hh, k1, k2, k3,
    modeloLogistico(Add(st.t, hh), Add(st.y, Mul(hh, k3)), rr, KK))
rungeKutta4LocalK3(st, rr, KK, hh, k1, k2) ==
  rungeKutta4LocalK4(st, rr, KK, hh, k1, k2,
    modeloLogistico(Add(st.t, Div(hh, Two)), Add(st.y, Mul(Div(hh, Two), k2)), rr, KK))
rungeKutta4LocalK2(st, rr, KK, hh, k1) ==
  rungeKutta4LocalK3(st, rr, KK, hh, k1,
    modeloLogistico(Add(st.t, Div(hh, Two)), Add(st.y, Mul(Div(hh, Two), k1)), rr, KK))
rungeKutta4LocalPasso(st, rr, KK, hh) ==
  rungeKutta4LocalK2(st, rr, KK, hh, modeloLogistico(st.t, st.y, rr, KK))

RECURSIVE rungeKutta4LocalLoop(_, _, _, _, _)
rungeKutta4LocalLoop(st, n, rr, KK, hh) ==
  IF ~(st.i < n) THEN st.resultado
  ELSE rungeKutta4LocalLoop(rungeKutta4LocalPasso(st, rr, KK, hh), n, rr, KK, hh)

rungeKutta4Local(rr, KK, y0, tff, hh) ==
  rungeKutta4LocalLoop(Inicio(y0), Passos(tff, hh), rr, KK, hh)

------------------------------------------------------------------------------
(* ModeloLogisticoCorrigido: the trajectory comparator *)

\* The function f itself, with its values computed once and kept.
Tabela(f) == f @@ <<>>

\* What JavaScript yields for an index outside an array, and the NaN that
\* arithmetic on it produces: two values that are no float.
Undefined == <<0, 1>>
NaN == <<0, 2>>

\* Entries of the collection of initial conditions kept by the model.
NumCond == 2

\* The initial collection of useState.
CondicoesIniciais ==
  <<[y0 |-> FromRat(15, 100), ativo |-> TRUE],
    [y0 |-> FromRat(50, 100), ativo |-> TRUE],
    [y0 |-> FromRat(90, 100), ativo |-> TRUE],
    [y0 |-> FromRat(120, 100), ativo |-> TRUE],
    [y0 |-> FromRat(150, 100), ativo |-> TRUE]>>

\* Values the sliders are moved to (each within the slider's min, max, step).
RSet  == {FromRat(5, 100), FromRat(10, 100)}
KSet  == {FromRat(8, 10), FromInt(1)}
TfSet == {FromInt(20), FromInt(100)}
HSet  == {FromInt(5), FromInt(10)}

\* What parseFloat(e.target.value) is for the texts typed into a y0 field:
\* NaN for an empty field, or the number typed. The field's min and max
\* attributes do not stop a text such as "-0.00001" from reaching onChange.
Y0Digitado == {Neg(FromRat(1, 100000)), NaN}

\* parseFloat(e.target.value) || 0.1
Y0Lido(v) == IF v = NaN \/ v = Zero THEN FromRat(1, 10) ELSE v

\* The values y0 of entry i (from 1) can take, and the collections the
\* handlers can produce.
Y0De(i) == {CondicoesIniciais[i].y0} \cup {Y0Lido(v) : v \in Y0Digitado}

RECURSIVE Colecoes(_)
Colecoes(n) ==
  IF n = 0 THEN {<<>>}
  ELSE {Append(cs, [y0 |-> y, ativo |-> a]) :
          cs \in Colecoes(n - 1), y \in Y0De(n), a \in BOOLEAN}

Y0Todos == UNION {Y0De(i) : i \in 1..NumCond}

\* The integrators and the analytic curve on every input the handlers can
\* produce, each evaluated once: eulerMemo[a] = euler(a[1], ..., a[5]).
Argumentos == RSet \X KSet \X Y0Todos \X TfSet \X HSet
eulerMemo == Tabela([a \in Argumentos |-> euler(a[1], a[2], a[3], a[4], a[5])])
eulerAprimoradoMemo ==
  Tabela([a \in Argumentos |-> eulerAprimorado(a[1], a[2], a[3], a[4], a[5])])
rungeKutta4Memo ==
  Tabela([a \in Argumentos |-> rungeKutta4(a[1], a[2], a[3], a[4], a[5])])

\* seq[i] of a JavaScript array, i counted from 1 here.
At(seq, i) == IF i \in DOMAIN seq THEN seq[i] ELSE Undefined

\* Math.abs(a - ex)
ErroAbs(a, ex) ==
  IF a \in {Undefined, NaN} \/ ex \in {Undefined, NaN} THEN NaN
  ELSE FAbs(Sub(a, ex))

\* A maximum that keeps the last value only.
MathMaxUltimo(x, y) == y

\* Math.max(x, y)
MathMax(x, y) == IF x = NaN \/ y = NaN THEN NaN ELSE Max(x, y)

\* x > 0 of JavaScript: false for NaN.
Positivo(x) == x # NaN /\ x[1] > 0

\* A filter that keeps every entry.
condicoesTodas(cs) == cs

RECURSIVE Inverte(_)
Inverte(s) == IF s = <<>> THEN <<>> ELSE Append(Inverte(Tail(s)), Head(s))
\* A filter that returns the active entries last to first.
condicoesAtivasInvertidas(cs) == Inverte(SelectSeq(cs, LAMBDA c : c.ativo))

\* condicoes.filter(c => c.ativo)
condicoesAtivas(cs) == SelectSeq(cs, LAMBDA c : c.ativo)

nPontos(tff, hh) == Passos(tff, hh) + 1

\* Array.from({length: nPontos}, (_, i) => parseFloat((i * h).toFixed(6)))
tempos(tff, hh) ==
  Tabela([i \in 1..nPontos(tff, hh) |-> ToFixed(Mul(FromInt(i - 1), hh))])

\* A projection that loses the last point.
YsSemUltimo(res) == [i \in 1..(Len(res) - 1) |-> res[i].y]

\* res.map(p => p.y)
Ys(res) == Tabela([i \in 1..Len(res) |-> res[i].y])

\* tempos.map(t => solucaoExata(t, r, K, cond.y0))
exata(ts, rr, KK, y0) ==
  Tabela([i \in 1..Len(ts) |-> solucaoExata(ts[i], rr, KK, y0)])
exataMemo ==
  Tabela([a \in Argumentos |-> exata(tempos(a[4], a[5]), a[1], a[2], a[3])])

\* The four calls of one entry of todasSolucoes, read from the tables where
\* the arguments are in them.
exataDe(a) ==
  IF a \in Argumentos THEN exataMemo[a]
  ELSE exata(tempos(a[4], a[5]), a[1], a[2], a[3])
eulerDe(a) ==
  IF a \in Argumentos THEN eulerMemo[a] ELSE euler(a[1], a[2], a[3], a[4], a[5])
eulerAprimoradoDe(a) ==
  IF a \in Argumentos THEN eulerAprimoradoMemo[a]
  ELSE eulerAprimorado(a[1], a[2], a[3], a[4], a[5])
rungeKutta4De(a) ==
  IF a \in Argumentos THEN rungeKutta4Memo[a]
  ELSE rungeKutta4(a[1], a[2], a[3], a[4], a[5])

\* One entry of todasSolucoes.
Solucao(cond, idx, rr, KK, tff, hh) ==
  [y0       |-> cond.y0,
   idx      |-> idx,
   exata    |-> exataDe(<<rr, KK, cond.y0, tff, hh>>),
   euler    |-> Ys(eulerDe(<<rr, KK, cond.y0, tff, hh>>)),
   eulerApr |-> Ys(eulerAprimoradoDe(<<rr, KK, cond.y0, tff, hh>>)),
   rk4      |-> Ys(rungeKutta4De(<<rr, KK, cond.y0, tff, hh>>))]

\* condicoesAtivas.map((cond, idx) => ...)
SolucoesDe(at, rr, KK, tff, hh) ==
  Tabela([j \in 1..Len(at) |-> Solucao(at[j], j - 1, rr, KK, tff, hh)])
todasSolucoes(cs, rr, KK, tff, hh) == SolucoesDe(condicoesAtivas(cs), rr, KK, tff, hh)

\* tempos.map((t, i) => ponto): the fields exata_j, euler_j, eulerApr_j, rk4_j
\* of a ponto are the functions exata, euler, eulerApr, rk4 of j.
dadosGrafico(ts, sols) ==
  Tabela([i \in 1..Len(ts) |->
     [t        |-> ts[i],
      exata    |-> Tabela([j \in 1..Len(sols) |-> At(sols[j].exata, i)]),
      euler    |-> Tabela([j \in 1..Len(sols) |-> At(sols[j].euler, i)]),
      eulerApr |-> Tabela([j \in 1..Len(sols) |-> At(sols[j].eulerApr, i)]),
      rk4      |-> Tabela([j \in 1..Len(sols) |-> At(sols[j].rk4, i)])]])

\* The two nested forEach of the error statistics for one method, st being
\* the running maximum and the position: for each sol, for each index of
\* sol.exata, erro = Math.max(erro, Math.abs(sol[metodo][i] - ex)).
RECURSIVE erroMaxLoop(_, _, _)
erroMaxLoop(st, sols, metodo) ==
  IF st.j > Len(sols) THEN st.erro
  ELSE IF st.i > Len(sols[st.j].exata)
    THEN erroMaxLoop([erro |-> st.erro, j |-> st.j + 1, i |-> 1], sols, metodo)
  ELSE erroMaxLoop(
         [erro |-> MathMax(st.erro, ErroAbs(At(sols[st.j][metodo], st.i),
                                            sols[st.j].exata[st.i])),
          j |-> st.j, i |-> st.i + 1], sols, metodo)

\* let erroMax = 0, then the loops.
erroMax(sols, metodo) == erroMaxLoop([erro |-> Zero, j |-> 1, i |-> 1], sols, metodo)

\* The value of the useMemo callback.
Retorno(ts, sols) ==
  [dadosGrafico    |-> dadosGrafico(ts, sols),
   todasSolucoes   |-> sols,
   tempos          |-> ts,
   erroMaxEuler    |-> erroMax(sols, "euler"),
   erroMaxEulerApr |-> erroMax(sols, "eulerApr"),
   erroMaxRK4      |-> erroMax(sols, "rk4")]
Dados(rr, KK, tff, hh, cs) ==
  Retorno(tempos(tff, hh), todasSolucoes(cs, rr, KK, tff, hh))

\* x.toFixed(0) for x >= 0, kept as a number.
ToFixed0(x) ==
  IF x[2] >= 0 THEN x
  ELSE IF -x[2] > 30 THEN Zero
  ELSE FromInt((x[1] + Pow2(-x[2] - 1)) \div Pow2(-x[2]))

\* A ratio that always divides.
RazaoSemMarcador(erro, erroRK4) ==
  [infinito |-> FALSE,
   valor |-> IF erroRK4[1] = 0 THEN Zero ELSE ToFixed0(Div(erro, erroRK4))]

\* The text of a ratio of the Comparativo:
\* erroMaxRK4 > 0 ? (erro / erroMaxRK4).toFixed(0) : '∞'
Razao(erro, erroRK4) ==
  IF Positivo(erroRK4)
    THEN [infinito |-> FALSE, valor |-> ToFixed0(Div(erro, erroRK4))]
    ELSE [infinito |-> TRUE, valor |-> Zero]

------------------------------------------------------------------------------
(* The component's state and its event handlers *)

VARIABLES r, K, tf, h, condicoes,
          mostrarExata, mostrarEuler, mostrarEulerApr, mostrarRK,
          dados,
          entrada, saida

\* The component's state, and a direct call of an exported function: its
\* arguments and what it returned.
componente == <<r, K, tf, h, condicoes,
                mostrarExata, mostrarEuler, mostrarEulerApr, mostrarRK, dados>>
chamada == <<entrada, saida>>
vars == <<componente, chamada>>

\* useMemo(() => ..., [r, K, tf, h, condicoes]): the callback runs in the
\* render that follows a change of a dependency, else the kept value stays.
ColecoesTodas == Colecoes(NumCond)
DadosMemo ==
  Tabela([e \in RSet \X KSet \X TfSet \X HSet |->
            Tabela([cs \in ColecoesTodas |-> Dados(e[1], e[2], e[3], e[4], cs)])])

\* No direct call is under way in the component.
SemEntrada == <<>>
SemSaida == [fn |-> "", args |-> <<>>, valor |-> <<>>]

\* A memo that never runs its callback again.
useMemoParado(mudou, anterior, r1, K1, tf1, h1, cs1) == anterior

useMemo(mudou, anterior, r1, K1, tf1, h1, cs1) ==
  IF mudou THEN DadosMemo[<<r1, K1, tf1, h1>>][cs1] ELSE anterior

Init ==
  /\ r = FromRat(5, 100)
  /\ K = FromInt(1)
  /\ tf = FromInt(100)
  /\ h = FromInt(5)
  /\ condicoes = SubSeq(CondicoesIniciais, 1, NumCond)
  /\ mostrarExata = TRUE
  /\ mostrarEuler = TRUE
  /\ mostrarEulerApr = TRUE
  /\ mostrarRK = TRUE
  /\ dados = DadosMemo[<<r, K, tf, h>>][condicoes]
  /\ entrada = SemEntrada
  /\ saida = SemSaida

setR(v) ==
  /\ r' = v
  /\ dados' = useMemo(v # r, dados, v, K, tf, h, condicoes)
  /\ UNCHANGED <<K, tf, h, condicoes,
                 mostrarExata, mostrarEuler, mostrarEulerApr, mostrarRK, chamada>>

setK(v) ==
  /\ K' = v
  /\ dados' = useMemo(v # K, dados, r, v, tf, h, condicoes)
  /\ UNCHANGED <<r, tf, h, condicoes,
                 mostrarExata, mostrarEuler, mostrarEulerApr, mostrarRK, chamada>>

setTf(v) ==
  /\ tf' = v
  /\ dados' = useMemo(v # tf, dados, r, K, v, h, condicoes)
  /\ UNCHANGED <<r, K, h, condicoes,
                 mostrarExata, mostrarEuler, mostrarEulerApr, mostrarRK, chamada>>

setH(v) ==
  /\ h' = v
  /\ dados' = useMemo(v # h, dados, r, K, tf, v, condicoes)
  /\ UNCHANGED <<r, K, tf, condicoes,
                 mostrarExata, mostrarEuler, mostrarEulerApr, mostrarRK, chamada>>

\* An update that writes the field into every entry.
atualizarTodas(index, campo, valor) ==
  /\ condicoes' = [i \in DOMAIN condicoes |-> [condicoes[i] EXCEPT ![campo] = valor]]
  /\ dados' = DadosMemo[<<r, K, tf, h>>][condicoes']
  /\ UNCHANGED <<r, K, tf, h,
                 mostrarExata, mostrarEuler, mostrarEulerApr, mostrarRK, chamada>>

\* novasCondicoes = [...condicoes]; novasCondicoes[index] = {..., [campo]: valor};
\* setCondicoes(novasCondicoes): a new array, so the memo is recomputed.
atualizarCondicao(index, campo, valor) ==
  /\ condicoes' = [condicoes EXCEPT ![index + 1][campo] = valor]
  /\ dados' = useMemo(TRUE, dados, r, K, tf, h, condicoes')
  /\ UNCHANGED <<r, K, tf, h,
                 mostrarExata, mostrarEuler, mostrarEulerApr, mostrarRK, chamada>>

\* The checkbox of entry idx.
MarcarCondicao(idx, marcado) == atualizarCondicao(idx, "ativo", marcado)

\* The y0 field of entry idx (disabled while the entry is inactive):
\* atualizarCondicao(idx, 'y0', parseFloat(e.target.value) || 0.1)
DigitarY0(idx, v) ==
  /\ condicoes[idx + 1].ativo
  /\ atualizarCondicao(idx, "y0", Y0Lido(v))

setMostrarExata(b) ==
  /\ mostrarExata' = b
  /\ dados' = useMemo(FALSE, dados, r, K, tf, h, condicoes)
  /\ UNCHANGED <<r, K, tf, h, condicoes, mostrarEuler, mostrarEulerApr, mostrarRK, chamada>>

setMostrarEuler(b) ==
  /\ mostrarEuler' = b
  /\ dados' = useMemo(FALSE, dados, r, K, tf, h, condicoes)
  /\ UNCHANGED <<r, K, tf, h, condicoes, mostrarExata, mostrarEulerApr, mostrarRK, chamada>>

setMostrarEulerApr(b) ==
  /\ mostrarEulerApr' = b
  /\ dados' = useMemo(FALSE, dados, r, K, tf, h, condicoes)
  /\ UNCHANGED <<r, K, tf, h, condicoes, mostrarExata, mostrarEuler, mostrarRK, chamada>>

setMostrarRK(b) ==
  /\ mostrarRK' = b
  /\ dados' = useMemo(FALSE, dados, r, K, tf, h, condicoes)
  /\ UNCHANGED <<r, K, tf, h, condicoes, mostrarExata, mostrarEuler, mostrarEulerApr, chamada>>

\* The sliders move to any of their values; a controlled checkbox reports
\* e.target.checked, the negation of the value it shows.
Next ==
  \/ \E v \in RSet : setR(v)
  \/ \E v \in KSet : setK(v)
  \/ \E v \in TfSet : setTf(v)
  \/ \E v \in HSet : setH(v)
  \/ \E idx \in 0..(NumCond - 1) : MarcarCondicao(idx, ~condicoes[idx + 1].ativo)
  \/ \E idx \in 0..(NumCond - 1), v \in Y0Digitado : DigitarY0(idx, v)
  \/ setMostrarExata(~mostrarExata)
  \/ setMostrarEuler(~mostrarEuler)
  \/ setMostrarEulerApr(~mostrarEulerApr)
  \/ setMostrarRK(~mostrarRK)

Spec == Init /\ [][Next]_vars

------------------------------------------------------------------------------
(* Direct calls of the exported functions *)

\* Arguments of the calls: growth rates, capacities, initial values (K
\* itself among them, and one above the slider's K) and pairs <<tf, h>>, with
\* steps that are no binary fraction, a step with more than 6 decimals and a
\* step longer than the horizon.
RFn == {FromRat(5, 100), FromRat(10, 100)}
KFn == {FromRat(8, 10), FromInt(1)}
Y0Fn == {FromRat(15, 100), FromRat(8, 10), FromInt(1), FromRat(150, 100), FromRat(271, 100)}
TempoFn == {<<FromInt(3), FromRat(3, 10)>>, <<FromRat(4, 1000000), FromRat(15, 10000000)>>,
            <<FromInt(20), FromInt(5)>>, <<FromInt(20), FromInt(10)>>,
            <<FromInt(2), FromInt(5)>>}
TFn == {Zero, FromInt(1), FromInt(10)}

Entradas == [r : RFn, K : KFn, y0 : Y0Fn, tf : {p[1] : p \in TempoFn},
             h : {p[2] : p \in TempoFn}]

InitFn ==
  /\ r = FromRat(5, 100)
  /\ K = FromInt(1)
  /\ tf = FromInt(100)
  /\ h = FromInt(5)
  /\ condicoes = SubSeq(CondicoesIniciais, 1, NumCond)
  /\ mostrarExata = TRUE
  /\ mostrarEuler = TRUE
  /\ mostrarEulerApr = TRUE
  /\ mostrarRK = TRUE
  /\ dados = DadosMemo[<<r, K, tf, h>>][condicoes]
  /\ entrada \in {e \in Entradas : <<e.tf, e.h>> \in TempoFn}
  /\ saida = SemSaida

\* A call that overwrites the initial value it was given.
RetornarGastando(nome, argumentos, v) ==
  /\ saida' = [fn |-> nome, args |-> argumentos, valor |-> v]
  /\ entrada' = [entrada EXCEPT !.y0 = Zero]
  /\ UNCHANGED componente

\* A call returns: the function, the arguments it was given and its value.
Retornar(nome, argumentos, v) ==
  /\ saida' = [fn |-> nome, args |-> argumentos, valor |-> v]
  /\ UNCHANGED <<componente, entrada>>

ArgumentosDe(e) == <<e.r, e.K, e.y0, e.tf, e.h>>

ChamarEuler ==
  Retornar("euler", ArgumentosDe(entrada),
           euler(entrada.r, entrada.K, entrada.y0, entrada.tf, entrada.h))
ChamarEulerAprimorado ==
  Retornar("eulerAprimorado", ArgumentosDe(entrada),
           eulerAprimorado(entrada.r, entrada.K, entrada.y0, entrada.tf, entrada.h))
ChamarRungeKutta4 ==
  Retornar("rungeKutta4", ArgumentosDe(entrada),
           rungeKutta4(entrada.r, entrada.K, entrada.y0, entrada.tf, entrada.h))
ChamarEulerLocal ==
  Retornar("eulerLocal", ArgumentosDe(entrada),
           eulerLocal(entrada.r, entrada.K, entrada.y0, entrada.tf, entrada.h))
ChamarEulerAprimoradoLocal ==
  Retornar("eulerAprimoradoLocal", ArgumentosDe(entrada),
           eulerAprimoradoLocal(entrada.r, entrada.K, entrada.y0, entrada.tf, entrada.h))
ChamarRungeKutta4Local ==
  Retornar("rungeKutta4Local", ArgumentosDe(entrada),
           rungeKutta4Local(entrada.r, entrada.K, entrada.y0, entrada.tf, entrada.h))
ChamarSolucaoExata(t) ==
  Retornar("solucaoExata", <<t, entrada.r, entrada.K, entrada.y0>>,
           solucaoExata(t, entrada.r, entrada.K, entrada.y0))
ChamarModeloLogistico(t) ==
  Retornar("modeloLogistico", <<t, entrada.y0, entrada.r, entrada.K>>,
           modeloLogistico(t, entrada.y0, entrada.r, entrada.K))
\* The useMemo callback on a collection of one active entry.
ChamarDados ==
  Retornar("dados", ArgumentosDe(entrada),
           Dados(entrada.r, entrada.K, entrada.tf, entrada.h,
                 <<[y0 |-> entrada.y0, ativo |-> TRUE]>>))

NextFn ==
  \/ ChamarEuler
  \/ ChamarEulerAprimorado
  \/ ChamarRungeKutta4
  \/ ChamarEulerLocal
  \/ ChamarEulerAprimoradoLocal
  \/ ChamarRungeKutta4Local
  \/ \E t \in TFn : ChamarSolucaoExata(t)
  \/ \E t \in TFn : ChamarModeloLogistico(t)
  \/ ChamarDados

SpecFn == InitFn /\ [][NextFn]_vars

------------------------------------------------------------------------------
(* Properties *)

\* ---------------------------------------------------------------------
\* The loop of an integrator, one iteration at a time.
\* ---------------------------------------------------------------------

\* A loop condition that lets one more iteration through.
ContinuaAteIgual(st, n) == st.i <= n

\* for (let i = 0; i < n; i++): the loop's condition.
Continua(st, n) == st.i < n

\* The body of the loop of each integrator.
Passo(metodo, st, rr, KK, hh) ==
  CASE metodo = "euler"           -> eulerPasso(st, rr, KK, hh)
    [] metodo = "eulerAprimorado" -> eulerAprimoradoPasso(st, rr, KK, hh)
    [] metodo = "rungeKutta4"     -> rungeKutta4Passo(st, rr, KK, hh)

\* The names of the utils integrators.
Integradores == {"euler", "eulerAprimorado", "rungeKutta4"}

\* The states a loop goes through from st in k iterations, and the body of
\* the loop on every one of them, each evaluated once:
\* PassoMemo[<<metodo, st, r, K, h>>] = Passo(metodo, st, r, K, h).
RECURSIVE EstadosDe(_, _, _, _, _, _)
EstadosDe(metodo, st, k, rr, KK, hh) ==
  IF k = 0 THEN {st}
  ELSE {st} \cup EstadosDe(metodo, Passo(metodo, st, rr, KK, hh), k - 1, rr, KK, hh)
ChavesLaco ==
  UNION {{<<metodo, st, e.r, e.K, e.h>> :
            st \in EstadosDe(metodo, Inicio(e.y0), Passos(e.tf, e.h), e.r, e.K, e.h)} :
         metodo \in Integradores, e \in {e \in Entradas : <<e.tf, e.h>> \in TempoFn}}
PassoMemo == Tabela([c \in ChavesLaco |-> Passo(c[1], c[2], c[3], c[4], c[5])])

\* The statements before the loop: n, resultado, y, t and the first push.
IniciarLaco(metodo) ==
  /\ saida.fn # "laco"
  /\ saida' = [fn |-> "laco", args |-> ArgumentosDe(entrada), metodo |-> metodo,
               n |-> Passos(entrada.tf, entrada.h), valor |-> Inicio(entrada.y0)]
  /\ UNCHANGED <<componente, entrada>>

\* One iteration.
IterarLaco ==
  /\ saida.fn = "laco"
  /\ Continua(saida.valor, saida.n)
  /\ saida' = [saida EXCEPT !.valor = PassoMemo[<<saida.metodo, saida.valor,
                                                   entrada.r, entrada.K, entrada.h>>]]
  /\ UNCHANGED <<componente, entrada>>

\* The loop's exit and return resultado.
SairLaco ==
  /\ saida.fn = "laco"
  /\ ~Continua(saida.valor, saida.n)
  /\ saida' = [fn |-> saida.metodo, args |-> saida.args, valor |-> saida.valor.resultado]
  /\ UNCHANGED <<componente, entrada>>

NextLaco ==
  \/ \E metodo \in Integradores : IniciarLaco(metodo)
  \/ IterarLaco
  \/ SairLaco

\* JavaScript runs a call to completion: a loop that can iterate or exit does.
SpecLaco ==
  /\ InitFn
  /\ [][NextLaco]_vars
  /\ WF_vars(IterarLaco)
  /\ WF_vars(SairLaco)


\* C1: a call of euler, eulerAprimorado or rungeKutta4 returns exactly
\* floor(tf / h) + 1 points, and the first of them is (t = 0, y = y0).
C1_NumeroDePontos ==
  saida.fn \in Integradores =>
    /\ Len(saida.valor) = Floor(Div(entrada.tf, entrada.h)) + 1
    /\ saida.valor[1] = [t |-> Zero, y |-> entrada.y0]

\* A call of rungeKutta4 with tf = 20, h = 5 has returned its 5 points.
C1_Witness ==
  /\ saida.fn = "rungeKutta4"
  /\ entrada.tf = FromInt(20) /\ entrada.h = FromInt(5)
  /\ Len(saida.valor) = 5

\* C2: the time stored at every index of an integrator's result is the value
\* of the comparator's grid at that index, parseFloat((i * h).toFixed(6)).
\* The integrators add h step by step instead, and with a step that is no
\* binary fraction the accumulated sum leaves the grid.
C2_TempoNaGrade ==
  saida.fn \in Integradores =>
    \A i \in 1..Len(saida.valor) :
      saida.valor[i].t = ToFixed(Mul(FromInt(i - 1), entrada.h))

\* The fields of a Trajectory Set and of the Error Summary, method by method.
Metodos == {"euler", "eulerApr", "rk4"}
ErroDe(d, metodo) ==
  CASE metodo = "euler"    -> d.erroMaxEuler
    [] metodo = "eulerApr" -> d.erroMaxEulerApr
    [] metodo = "rk4"      -> d.erroMaxRK4

\* |numeric_y - analytic_y| of method metodo at the pair (j, i) of d, and the
\* set of these values over every active condition and every time index.
ErroNoPar(d, metodo, j, i) ==
  FAbs(Sub(d.todasSolucoes[j][metodo][i], d.todasSolucoes[j].exata[i]))
ParesDe(d) == (1..Len(d.todasSolucoes)) \X (1..Len(d.tempos))

\* C3: each scalar of the Error Summary is the maximum of |numeric - analytic|
\* over all pairs (active condition, time index): it is not negative, it is
\* not below the error at any pair, and it is the error at some pair (or 0,
\* the starting value, when there is no pair).
C3_ErroMaximo ==
  \A metodo \in Metodos :
    /\ ~Lt(ErroDe(dados, metodo), Zero)
    /\ \A p \in ParesDe(dados) :
         ~Lt(ErroDe(dados, metodo), ErroNoPar(dados, metodo, p[1], p[2]))
    /\ \/ ParesDe(dados) = {} /\ ErroDe(dados, metodo) = Zero
       \/ \E p \in ParesDe(dados) :
            ErroDe(dados, metodo) = ErroNoPar(dados, metodo, p[1], p[2])

\* Two active conditions, and Euler's maximum is reached in the second one
\* only, at an index after the first.
C3_Witness ==
  /\ Len(dados.todasSolucoes) = 2
  /\ Positivo(dados.erroMaxEuler)
  /\ \A i \in 1..Len(dados.tempos) : Lt(ErroNoPar(dados, "euler", 1, i), dados.erroMaxEuler)
  /\ \E i \in 2..Len(dados.tempos) : ErroNoPar(dados, "euler", 2, i) = dados.erroMaxEuler

\* C4: with no active initial condition todasSolucoes is empty and the three
\* scalars of the Error Summary are 0.
C4_SemCondicaoAtiva ==
  (\A i \in 1..Len(condicoes) : ~condicoes[i].ativo) =>
    /\ dados.todasSolucoes = <<>>
    /\ dados.erroMaxEuler = Zero
    /\ dados.erroMaxEulerApr = Zero
    /\ dados.erroMaxRK4 = Zero

\* Every checkbox has been cleared, after the step was moved away from its
\* initial value.
C4_Witness ==
  /\ \A i \in 1..Len(condicoes) : ~condicoes[i].ativo
  /\ h = FromInt(10)
  /\ Len(dados.tempos) = 11

\* C5: the Comparativo shows the marker for both ratios when the RK4 maximum
\* is 0, and the rounded quotient only when it is above 0.
C5_RazaoIndefinida ==
  \A erro \in {dados.erroMaxEuler, dados.erroMaxEulerApr} :
    /\ dados.erroMaxRK4 = Zero => Razao(erro, dados.erroMaxRK4).infinito
    /\ ~Razao(erro, dados.erroMaxRK4).infinito =>
         /\ Lt(Zero, dados.erroMaxRK4)
         /\ Razao(erro, dados.erroMaxRK4).valor = ToFixed0(Div(erro, dados.erroMaxRK4))

\* The RK4 maximum is 0 although a condition is active and Euler's is not.
C5_Witness ==
  /\ dados.erroMaxRK4 = Zero
  /\ Razao(dados.erroMaxEuler, dados.erroMaxRK4).infinito
  /\ Len(dados.todasSolucoes) > 0

\* The points of the degenerate scenario y0 = K.
NoPontoFixo == entrada.y0 = entrada.K

\* What JavaScript evaluates for the analytic solution at the fixed point:
\* (K * y0) / (y0 + (K - y0) * exp(-r t)) with K - y0 = 0 is (K * K) / K, in
\* which the product is rounded before the division.
ExataNoPontoFixo(KK) == Div(Mul(KK, KK), KK)

\* C6 as stated: with y0 = K every sample of the analytic solution and of the
\* three integrators equals K, and the three Error Summary scalars are 0.
C6_PontoFixo ==
  NoPontoFixo =>
    /\ saida.fn \in Integradores =>
         \A i \in 1..Len(saida.valor) : saida.valor[i].y = entrada.K
    /\ saida.fn = "solucaoExata" => saida.valor = entrada.K
    /\ saida.fn = "dados" =>
         /\ saida.valor.erroMaxEuler = Zero
         /\ saida.valor.erroMaxEulerApr = Zero
         /\ saida.valor.erroMaxRK4 = Zero

\* C6 (amended): with y0 = K every sample of the three integrators equals K;
\* the analytic solution is the same at every t, the rounded quotient
\* (K * K) / K, which need not be K; and the three scalars of the Error
\* Summary are the distance between that quotient and K.
C6_PontoFixoArredondado ==
  NoPontoFixo =>
    /\ saida.fn \in Integradores =>
         \A i \in 1..Len(saida.valor) : saida.valor[i].y = entrada.K
    /\ saida.fn = "solucaoExata" => saida.valor = ExataNoPontoFixo(entrada.K)
    /\ saida.fn = "dados" =>
         /\ \A i \in 1..Len(saida.valor.tempos) :
              /\ saida.valor.todasSolucoes[1].exata[i] = ExataNoPontoFixo(entrada.K)
              /\ saida.valor.todasSolucoes[1].euler[i] = entrada.K
              /\ saida.valor.todasSolucoes[1].eulerApr[i] = entrada.K
              /\ saida.valor.todasSolucoes[1].rk4[i] = entrada.K
         /\ \A metodo \in Metodos :
              ErroDe(saida.valor, metodo) = FAbs(Sub(ExataNoPontoFixo(entrada.K), entrada.K))

\* The comparator has run on y0 = K = 0.8 over several steps, and its
\* analytic sequence is not K.
C6_Witness ==
  /\ NoPontoFixo
  /\ saida.fn = "dados"
  /\ Len(saida.valor.tempos) > 2
  /\ saida.valor.todasSolucoes[1].exata[2] # entrada.K
  /\ saida.valor.todasSolucoes[1].rk4[2] = entrada.K

Campos == {"exata", "euler", "eulerApr", "rk4"}

\* C7: for each active condition j the four sequences have the length
\* floor(tf / h) + 1 of the time grid, and the flattened record at every index
\* i holds, for every j, the i-th element of each sequence, none undefined.
C7_SequenciasParalelas ==
  /\ Len(dados.tempos) = Floor(Div(tf, h)) + 1
  /\ Len(dados.dadosGrafico) = Len(dados.tempos)
  /\ \A j \in 1..Len(dados.todasSolucoes) : \A campo \in Campos :
       /\ Len(dados.todasSolucoes[j][campo]) = Len(dados.tempos)
       /\ \A i \in 1..Len(dados.tempos) :
            /\ DOMAIN dados.dadosGrafico[i][campo] = 1..Len(dados.todasSolucoes)
            /\ dados.dadosGrafico[i][campo][j] = dados.todasSolucoes[j][campo][i]
            /\ dados.dadosGrafico[i][campo][j] \notin {Undefined, NaN}
            /\ dados.dadosGrafico[i].t = dados.tempos[i]

\* Two active conditions on a grid of 11 times; the last record holds the
\* last RK4 sample of the second condition.
C7_Witness ==
  /\ Len(dados.todasSolucoes) = 2
  /\ Len(dados.tempos) = 11
  /\ dados.dadosGrafico[11].rk4[2] = dados.todasSolucoes[2].rk4[11]
  /\ dados.todasSolucoes[2].rk4[11] # dados.todasSolucoes[2].euler[11]

\* The positions of the active entries of a collection, and the rank of an
\* active position among them.
PosAtivas(cs) == {i \in 1..Len(cs) : cs[i].ativo}
Ordem(cs, i) == Cardinality({k \in PosAtivas(cs) : k <= i})

\* Collections that differ from cs at most in the y0 of inactive entries.
MesmasAtivas(cs) ==
  {cs2 \in ColecoesTodas :
     \A i \in 1..Len(cs) :
       /\ cs2[i].ativo = cs[i].ativo
       /\ cs[i].ativo => cs2[i].y0 = cs[i].y0}

\* C8: todasSolucoes has one entry per active entry, in the order of the
\* collection, and the whole result is the one any collection with the same
\* active entries yields, whatever the y0 of its inactive entries.
C8_SoAtivas ==
  /\ Len(dados.todasSolucoes) = Cardinality(PosAtivas(condicoes))
  /\ \A i \in PosAtivas(condicoes) :
       /\ dados.todasSolucoes[Ordem(condicoes, i)].y0 = condicoes[i].y0
       /\ dados.todasSolucoes[Ordem(condicoes, i)].idx = Ordem(condicoes, i) - 1
  /\ \A cs2 \in MesmasAtivas(condicoes) : DadosMemo[<<r, K, tf, h>>][cs2] = dados

\* The first entry was edited and then deactivated; the only Trajectory Set
\* is the second entry's.
C8_Witness ==
  /\ ~condicoes[1].ativo
  /\ condicoes[1].y0 # CondicoesIniciais[1].y0
  /\ condicoes[2].ativo
  /\ Len(dados.todasSolucoes) = 1
  /\ dados.todasSolucoes[1].y0 = condicoes[2].y0
  /\ Cardinality(MesmasAtivas(condicoes)) > 1

\* C9: in every reachable state the result in effect is the one a full
\* recomputation from the current r, K, tf, h and collection gives, and a step
\* that leaves these five unchanged (a visibility flag being toggled) changes
\* nothing of the result.
C9_SemResultadoVelho ==
  /\ [](dados = Dados(r, K, tf, h, condicoes))
  /\ [][/\ <<r', K', tf', h', condicoes'>> = <<r, K, tf, h, condicoes>> => dados' = dados
        /\ <<mostrarExata', mostrarEuler', mostrarEulerApr', mostrarRK'>>
              # <<mostrarExata, mostrarEuler, mostrarEulerApr, mostrarRK>> => dados' = dados]_vars

\* Parameters and collection have been changed and a flag toggled; the result
\* in effect is the recomputed one, no longer the initial one.
C9_Witness ==
  /\ r = FromRat(10, 100)
  /\ h = FromInt(10)
  /\ ~condicoes[2].ativo
  /\ ~mostrarEuler
  /\ dados = Dados(FromRat(10, 100), K, tf, FromInt(10), condicoes)
  /\ dados # Dados(FromRat(5, 100), K, tf, FromInt(5), SubSeq(CondicoesIniciais, 1, NumCond))

Tolerancia == <<1, 3 - MantBits>>

NaFaixaTestada ==
  /\ entrada.r = FromRat(5, 100)
  /\ entrada.K = FromInt(1)
  /\ ~Lt(entrada.h, FromRat(5, 10))
  /\ ~Lt(FromInt(10), entrada.h)

\* error(RK4) <= error(Heun) <= error(Euler) in an Error Summary.
ErrosOrdenados(d) ==
  /\ ~Lt(d.erroMaxEulerApr, d.erroMaxRK4)
  /\ ~Lt(d.erroMaxEuler, d.erroMaxEulerApr)

LadoDireito(y, rr, KK) == Mul(Mul(rr, y), Sub(One, Div(y, KK)))

\* The loop's t after i additions of h to 0.
RECURSIVE TAcumulado(_, _)
TAcumulado(i, hh) == IF i = 0 THEN Zero ELSE Add(TAcumulado(i - 1, hh), hh)

\* C13: every sample of euler after the first is y_i + h * f(t_i, y_i) of the
\* sample before it, its time is the sum of i additions of h (stored rounded
\* to 6 decimals), and f returns r * y * (1 - y / K) whatever t it is given.
C13_PassoEuler ==
  /\ saida.fn = "euler" =>
       \A i \in 1..(Len(saida.valor) - 1) :
         /\ saida.valor[i + 1].y =
              Add(saida.valor[i].y,
                  Mul(entrada.h, LadoDireito(saida.valor[i].y, entrada.r, entrada.K)))
         /\ saida.valor[i + 1].t = ToFixed(TAcumulado(i, entrada.h))
  /\ saida.fn = "modeloLogistico" =>
       saida.valor = LadoDireito(saida.args[2], saida.args[3], saida.args[4])

\* euler has returned ten steps of 0.3 from y0 = 0.15, and the last sample is
\* above the first.
C13_Witness ==
  /\ saida.fn = "euler"
  /\ entrada.h = FromRat(3, 10)
  /\ entrada.y0 = FromRat(15, 100)
  /\ Len(saida.valor) = 11
  /\ Lt(entrada.y0, saida.valor[11].y)

\* The Heun and RK4 samples that follow y with the slopes taken from y.
PassoHeun(y, rr, KK, hh) ==
  Add(y, Mul(Div(hh, Two),
             Add(LadoDireito(y, rr, KK),
                 LadoDireito(Add(y, Mul(hh, LadoDireito(y, rr, KK))), rr, KK))))
RK4k1(y, rr, KK, hh) == LadoDireito(y, rr, KK)
RK4k2(y, rr, KK, hh) == LadoDireito(Add(y, Mul(Div(hh, Two), RK4k1(y, rr, KK, hh))), rr, KK)
RK4k3(y, rr, KK, hh) == LadoDireito(Add(y, Mul(Div(hh, Two), RK4k2(y, rr, KK, hh))), rr, KK)
RK4k4(y, rr, KK, hh) == LadoDireito(Add(y, Mul(hh, RK4k3(y, rr, KK, hh))), rr, KK)
PassoRK4(y, rr, KK, hh) ==
  Add(y, Mul(Div(hh, FromInt(6)),
             Add(Add(Add(RK4k1(y, rr, KK, hh), Mul(Two, RK4k2(y, rr, KK, hh))),
                     Mul(Two, RK4k3(y, rr, KK, hh))),
                 RK4k4(y, rr, KK, hh))))

\* C14: every sample of eulerAprimorado (utils and inline) after the first is
\* y_i + (h / 2) * (k1 + k2) with k1 = f(t_i, y_i) and k2 = f(t_i + h,
\* y_i + h * k1), both from the sample before it.
C14_PassoHeun ==
  saida.fn \in {"eulerAprimorado", "eulerAprimoradoLocal"} =>
    \A i \in 1..(Len(saida.valor) - 1) :
      saida.valor[i + 1].y = PassoHeun(saida.valor[i].y, entrada.r, entrada.K, entrada.h)

\* eulerAprimorado has returned four steps of 5, and its last sample is not
\* the one Euler's rule gives from the sample before.
C14_Witness ==
  /\ saida.fn = "eulerAprimorado"
  /\ entrada.h = FromInt(5)
  /\ Len(saida.valor) = 5
  /\ saida.valor[5].y #
       Add(saida.valor[4].y,
           Mul(entrada.h, LadoDireito(saida.valor[4].y, entrada.r, entrada.K)))

\* C15: every sample of rungeKutta4 (utils and inline) after the first is
\* y_i + (h / 6) * (k1 + 2 k2 + 2 k3 + k4) with the four slopes built from the
\* sample before it.
C15_PassoRK4 ==
  saida.fn \in {"rungeKutta4", "rungeKutta4Local"} =>
    \A i \in 1..(Len(saida.valor) - 1) :
      saida.valor[i + 1].y = PassoRK4(saida.valor[i].y, entrada.r, entrada.K, entrada.h)

\* rungeKutta4 has returned four steps of 5, and its last sample is not the
\* one Heun's rule gives from the sample before.
C15_Witness ==
  /\ saida.fn = "rungeKutta4"
  /\ entrada.h = FromInt(5)
  /\ Len(saida.valor) = 5
  /\ saida.valor[5].y # PassoHeun(saida.valor[4].y, entrada.r, entrada.K, entrada.h)

\* C16: a loop that has started leaves after exactly n = floor(tf / h)
\* iterations with its n + 1 points, and every started loop returns.
C16_LacoTermina ==
  /\ [][(saida.fn = "laco" /\ saida'.fn # "laco") =>
          /\ saida.valor.i = Floor(Div(entrada.tf, entrada.h))
          /\ saida'.fn = saida.metodo
          /\ Len(saida'.valor) = Floor(Div(entrada.tf, entrada.h)) + 1]_vars
  /\ [](saida.fn = "laco" => saida.valor.i <= Floor(Div(entrada.tf, entrada.h)))
  /\ (saida.fn = "laco") ~> (saida.fn \in Integradores)

\* rungeKutta4 has returned for tf = 2 below h = 5: no iteration, one point.
C16_Witness ==
  /\ saida.fn = "rungeKutta4"
  /\ entrada.tf = FromInt(2)
  /\ entrada.h = FromInt(5)
  /\ saida.valor = <<Ponto(Zero, entrada.y0)>>

\* C17: every entry of the collection has a y0 that is a number above 0 and
\* an ativo that is a boolean.
C17_Y0Positivo ==
  \A i \in 1..Len(condicoes) :
    /\ condicoes[i].y0 \notin {NaN, Undefined}
    /\ Lt(Zero, condicoes[i].y0)
    /\ condicoes[i].ativo \in BOOLEAN

\* The utils integrator that has the name of an inline one, called on e.
UtilsDe(nome, e) ==
  CASE nome = "eulerLocal"           -> euler(e.r, e.K, e.y0, e.tf, e.h)
    [] nome = "eulerAprimoradoLocal" -> eulerAprimorado(e.r, e.K, e.y0, e.tf, e.h)
    [] nome = "rungeKutta4Local"     -> rungeKutta4(e.r, e.K, e.y0, e.tf, e.h)
Locais == {"eulerLocal", "eulerAprimoradoLocal", "rungeKutta4Local"}

\* Two results with the same length and the same y at every index, the
\* second one's t being the first one's rounded to 6 decimals.
MesmoY(local, utils) ==
  /\ Len(local) = Len(utils)
  /\ \A i \in 1..Len(local) :
       /\ utils[i].y = local[i].y
       /\ utils[i].t = ToFixed(local[i].t)

\* C18: what an inline integrator returns has the length and the y values of
\* what the utils integrator of the same name returns for the same arguments,
\* whose t is the inline t rounded to 6 decimals.
C18_CopiasEquivalentes ==
  saida.fn \in Locais => MesmoY(saida.valor, UtilsDe(saida.fn, entrada))

\* The inline rungeKutta4 has returned two steps of 0.0000015, and its second
\* time is changed by the rounding to 6 decimals.
C18_Witness ==
  /\ saida.fn = "rungeKutta4Local"
  /\ Len(saida.valor) = 3
  /\ saida.valor[2].t # ToFixed(saida.valor[2].t)
  /\ entrada.y0 = FromRat(271, 100)

\* C19: a step that changes the collection changes one field of one entry:
\* the length and the order stay, every other entry and the other field of
\* the entry are as before.
C19_SoUmCampo ==
  [][condicoes' # condicoes =>
       /\ Len(condicoes') = Len(condicoes)
       /\ \E i \in 1..Len(condicoes) :
            /\ \A k \in 1..Len(condicoes) : k # i => condicoes'[k] = condicoes[k]
            /\ \/ condicoes'[i].ativo = condicoes[i].ativo
               \/ condicoes'[i].y0 = condicoes[i].y0]_vars

\* The second entry has been given a new y0 and then deactivated while the
\* first entry is as it was initially.
C19_Witness ==
  /\ condicoes[1] = CondicoesIniciais[1]
  /\ condicoes[2].y0 = FromRat(1, 10)
  /\ ~condicoes[2].ativo
  /\ Len(condicoes) = NumCond

==============================================================================
